---- MODULE Spec2Model ----
(***************************************************************************)
(* Model of logdbgview.py: a listener for the Win32 OutputDebugString      *)
(* broadcast channel (DBWIN_BUFFER, DBWIN_BUFFER_READY, DBWIN_DATA_READY). *)
(*                                                                         *)
(* Threads of control: the controller (the script that makes, starts and   *)
(* closes sessions), one background thread per LogDbgViewReal (run), and   *)
(* the external producers that call OutputDebugString.                     *)
(*                                                                         *)
(* Win32 events are auto-reset (bManualReset = 0): SetEvent on an event a  *)
(* thread is blocked on releases that thread and leaves the event          *)
(* nonsignalled; otherwise the event stays signalled until a wait takes    *)
(* it.  WaitForMultipleObjects(bWaitAll = 0) called with several events    *)
(* signalled returns the smallest index, so data_ready wins over stop.     *)
(***************************************************************************)
EXTENDS Integers, Sequences, FiniteSets, TLC

VARIABLES
    overlap,      \* TRUE when the controller lets two sessions be live at once
    kind,         \* kind[s]: "none" | "real" (LogDbgViewReal) | "null" (LogDbgView)
    form,         \* form[s]: "explicit" (start()/close()) | "scoped" (with statement)
    cpc,          \* cpc[s]: the controller's position with session s
    closes,       \* closes[s]: number of close() calls that have returned
    err,          \* err[s]: error the controller received from an operation on s
    envFail,      \* envFail[s]: the acquisition step the environment refused in __init__
    flag,         \* flag[s]: the log_debug_strings the factory was called with for s
    bodyErr,      \* bodyErr[s]: an error was raised inside the with body
    propagated,   \* propagated[s]: the body's error reached the caller of the with
    tpc,          \* tpc[s]: position of the background thread in run()
    handles,      \* handles[s]: event handles held by session s
    stop,         \* stop[s]: state of the private stop event
    mapped,       \* mapped[s]: self.buffer is an open mapping of DBWIN_BUFFER
    log_state,    \* log_state[s]: "absent" | "open" | "closed" (self.log_file)
    log_file,     \* log_file[s]: lines written to the log file
    log_ids,      \* log_ids[s]: arrival number of the message behind each line
    buffer_ready, \* state of the named event DBWIN_BUFFER_READY
    data_ready,   \* state of the named event DBWIN_DATA_READY
    buffer,       \* content of the section DBWIN_BUFFER
    ppc,          \* position of the producer inside OutputDebugString
    sent,         \* number of messages written to the channel so far
    dep,          \* dep[s]: messages whose data_ready fired between start() and close()
    during,       \* during[s]: messages whose data_ready fired from start() to the end of close()
    recv,         \* recv[s]: channel contents the loop of s has read, in order
    trace         \* trace[s]: lifecycle steps performed on session s

vars == <<overlap, kind, form, cpc, closes, err, envFail, flag, bodyErr, propagated,
          tpc, handles, stop, mapped, log_state, log_file, log_ids,
          buffer_ready, data_ready, buffer, ppc, sent, dep, during, recv, trace>>

ctlVars == <<kind, form, cpc, closes, err, envFail, flag, bodyErr, propagated>>
resVars == <<handles, mapped, log_state>>
logVars == <<log_file, log_ids>>
prodVars == <<ppc, sent>>

----------------------------------------------------------------------------
(* Bounds *)

MaxMsgs == 2          \* messages the producers write in one behaviour
MaxCloses == 2        \* close() calls on one session
buffer_length == 6    \* channel capacity, scaled down from 4096

(* Program constants *)

process_id_length == 4
remaining_length == buffer_length - process_id_length

Sessions == {1, 2}    \* ldv1 and ldv2 of LogDbgView.test

NUL == 0

----------------------------------------------------------------------------
(* Channel content and decoding *)

\* a payload region filled with byte b, no NUL anywhere
Fill(b) == [i \in 1..remaining_length |-> b]

\* text t, a NUL terminator, then whatever the region held before (66s)
Term(t) == [i \in 1..remaining_length |->
              IF i <= Len(t) THEN t[i] ELSE IF i = Len(t) + 1 THEN NUL ELSE 66]

\* the contents producers write: pid and full payload region
Messages ==
    { [pid |-> 100, data |-> Fill(65)],
      [pid |-> 100, data |-> Term(<<65>>)],
      [pid |-> 200, data |-> Term(<<255>>)] }

\* a freshly created section is zero filled
ZeroBuffer == [pid |-> 0, data |-> Fill(NUL), id |-> 0]

\* data.index(0): position of the first NUL, 0 when there is none
RECURSIVE IndexOfNul(_, _)
IndexOfNul(data, i) ==
    IF i > Len(data) THEN 0
    ELSE IF data[i] = NUL THEN i
    ELSE IndexOfNul(data, i + 1)

\* variant: the payload is logged whole, the terminator and what follows too
TextBytes_whole(data) == data

\* data[:data.index(0)] if 0 in data else data
TextBytes(data) ==
    IF IndexOfNul(data, 1) = 0 THEN data
    ELSE SubSeq(data, 1, IndexOfNul(data, 1) - 1)

\* str(bytes, 'UTF-8'): raises UnicodeDecodeError on a byte that is not UTF-8
\* (only single-byte code points and the never-valid byte 255 occur here)
Decodable(bytes) == \A i \in 1..Len(bytes) : bytes[i] < 128
Decode(bytes) == [i \in 1..Len(bytes) |-> bytes[i]]

\* 'Process {p}: {s}\n'.format(p=process_id, s=string)
Line(p, s) == <<"Process ", p, ": ", s, "\n">>

----------------------------------------------------------------------------
(* Derived state *)

Append2(f, s, x) == [f EXCEPT ![s] = Append(@, x)]

\* a named event exists while some session object holds a handle to it;
\* the handles are never closed by close()
EventExists(name) == \E s \in Sessions : name \in handles[s]

\* DBWIN_BUFFER exists while a listener maps it or a producer is using it
SectionExists == (\E s \in Sessions : mapped[s]) \/ ppc # "idle"

Finished(s) == tpc[s] \in {"done", "dead"}
Running(s) == tpc[s] \in {"arm", "callwait", "blocked", "read"}
Blocked == {s \in Sessions : tpc[s] = "blocked"}

\* the controller has not finished with session s: it holds the listener role
Live(s) == kind[s] = "real" /\ cpc[s] \in {"made", "started", "c_join", "c_buf", "c_log"}

\* the controller is inside close() of session s
InClose(s) == cpc[s] \in {"c_join", "c_buf", "c_log"}

\* the controller can begin an operation on session s: it is one thread, so
\* it is not inside close() of another session (independent controllers,
\* one per session, when sessions overlap)
CtlFree(s) == overlap \/ \A t \in Sessions \ {s} : ~InClose(t)

\* the state before any session object is made
Fresh ==
    /\ kind = [s \in Sessions |-> "none"]
    /\ form = [s \in Sessions |-> "explicit"]
    /\ cpc = [s \in Sessions |-> "none"]
    /\ closes = [s \in Sessions |-> 0]
    /\ err = [s \in Sessions |-> "none"]
    /\ envFail = [s \in Sessions |-> "none"]
    /\ flag = [s \in Sessions |-> FALSE]
    /\ bodyErr = [s \in Sessions |-> FALSE]
    /\ propagated = [s \in Sessions |-> FALSE]
    /\ tpc = [s \in Sessions |-> "init"]
    /\ handles = [s \in Sessions |-> {}]
    /\ stop = [s \in Sessions |-> FALSE]
    /\ mapped = [s \in Sessions |-> FALSE]
    /\ log_state = [s \in Sessions |-> "absent"]
    /\ log_file = [s \in Sessions |-> <<>>]
    /\ log_ids = [s \in Sessions |-> <<>>]
    /\ buffer_ready = FALSE
    /\ data_ready = FALSE
    /\ buffer = ZeroBuffer
    /\ ppc = "idle"
    /\ sent = 0
    /\ dep = [s \in Sessions |-> <<>>]
    /\ during = [s \in Sessions |-> {}]
    /\ recv = [s \in Sessions |-> <<>>]
    /\ trace = [s \in Sessions |-> <<>>]

----------------------------------------------------------------------------
(* Construction: LogDbgView.__init__ and LogDbgViewReal.__init__ *)

\* the acquisition steps of LogDbgViewReal.__init__, in program order
InitSteps == <<"log", "buffer_ready", "data_ready", "stop", "mmap">>
FailPoints == {"none", "log", "buffer_ready", "data_ready", "stop", "mmap"}

StepIndex(name) == CHOOSE i \in 1..Len(InitSteps) : InitSteps[i] = name

\* step `name` ran and succeeded when the environment refuses step `fail`
Acquired(name, fail) == fail = "none" \/ StepIndex(name) < StepIndex(fail)

\* win32event.CreateEvent(None, 0, 0, name): opens the event when it exists
\* (its state is kept), creates it nonsignalled otherwise; never fails
\* because another listener holds it
CreateEvent(name, state) == IF EventExists(name) THEN state ELSE FALSE

\* variant: an event that already exists under the name is refused
InitFailure_exclusive(fail) ==
    IF fail = "none" /\ EventExists("buffer_ready") THEN "buffer_ready" ELSE fail

\* the step of LogDbgViewReal.__init__ that raises: the one the environment
\* refuses.  An event or a section that already exists under the name is
\* opened, so another listener is no reason to fail.
InitFailure(fail) == fail

\* variant: the base constructor creates the named log file
LogDbgView_init_open(s) ==
    /\ cpc' = [cpc EXCEPT ![s] = "made"]
    /\ log_state' = [log_state EXCEPT ![s] = "open"]
    /\ UNCHANGED <<err, handles, mapped, stop, log_file, buffer_ready, data_ready, buffer>>

\* LogDbgView.__init__: does nothing
LogDbgView_init(s) ==
    /\ cpc' = [cpc EXCEPT ![s] = "made"]
    /\ UNCHANGED <<err, resVars, stop, log_file, buffer_ready, data_ready, buffer>>

\* variant: the constructor acquires nothing (acquisition put off to start())
LogDbgViewReal_init_lazy(s, fail) ==
    /\ cpc' = [cpc EXCEPT ![s] = IF fail = "none" THEN "made" ELSE "failed"]
    /\ err' = [err EXCEPT ![s] = IF fail = "none" THEN "none" ELSE "ResourceUnavailable"]
    /\ UNCHANGED <<resVars, stop, log_file, buffer_ready, data_ready, buffer>>

\* LogDbgViewReal.__init__: open the log, create the events, map the section.
\* An exception of a step leaves what the earlier steps acquired as it is.
LogDbgViewReal_init(s, fail) ==
    /\ log_state' = [log_state EXCEPT ![s] = IF Acquired("log", fail) THEN "open" ELSE @]
    /\ log_file' = [log_file EXCEPT ![s] = <<>>]
    /\ handles' = [handles EXCEPT ![s] =
                      {n \in {"buffer_ready", "data_ready", "stop"} : Acquired(n, fail)}]
    /\ buffer_ready' = IF Acquired("buffer_ready", fail)
                       THEN CreateEvent("buffer_ready", buffer_ready) ELSE buffer_ready
    /\ data_ready' = IF Acquired("data_ready", fail)
                     THEN CreateEvent("data_ready", data_ready) ELSE data_ready
    /\ stop' = [stop EXCEPT ![s] = FALSE]
    /\ mapped' = [mapped EXCEPT ![s] = Acquired("mmap", fail)]
    /\ buffer' = IF Acquired("mmap", fail) /\ ~SectionExists THEN ZeroBuffer ELSE buffer
    /\ cpc' = [cpc EXCEPT ![s] = IF fail = "none" THEN "made" ELSE "failed"]
    /\ err' = [err EXCEPT ![s] = IF fail = "none" THEN "none" ELSE "ResourceUnavailable"]

\* variant: the factory returns a capture session whatever the flag is
Class_real(log_debug_strings) == "real"

\* LogDbgViewReal if log_debug_strings == True else LogDbgView
Class(log_debug_strings) == IF log_debug_strings = TRUE THEN "real" ELSE "null"

\* LogDbgView.makeLogDbgView(log_debug_strings, log_file_name), called by the
\* controller either for explicit start()/close() or as the with expression;
\* an exception of an earlier operation has ended the controller's script
makeLogDbgView(s, log_debug_strings, f, fail) ==
    /\ cpc[s] = "none"
    /\ \A t \in Sessions : t < s => cpc[t] # "none" /\ err[t] = "none"
    /\ overlap \/ \A t \in Sessions \ {s} : ~Live(t)
    /\ CtlFree(s)
    /\ kind' = [kind EXCEPT ![s] = Class(log_debug_strings)]
    /\ flag' = [flag EXCEPT ![s] = log_debug_strings]
    /\ form' = [form EXCEPT ![s] = f]
    /\ IF Class(log_debug_strings) = "real"
       THEN LogDbgViewReal_init(s, InitFailure(fail))
       ELSE fail = "none" /\ LogDbgView_init(s)
    /\ envFail' = [envFail EXCEPT ![s] = fail]
    /\ UNCHANGED <<overlap, closes, bodyErr, propagated, tpc, log_ids, prodVars,
                   dep, during, recv, trace>>

----------------------------------------------------------------------------
(* start(): threading.Thread.start for LogDbgViewReal, a no-op for LogDbgView *)

\* Thread.start(): launches run() once; a second call raises RuntimeError
start(s) ==
    /\ IF kind[s] = "null"
       THEN /\ cpc' = [cpc EXCEPT ![s] = "started"]
            /\ UNCHANGED <<tpc, err, trace>>
       ELSE IF tpc[s] = "init"
       THEN /\ tpc' = [tpc EXCEPT ![s] = "arm"]
            /\ cpc' = [cpc EXCEPT ![s] = "started"]
            /\ trace' = Append2(trace, s, "start")
            /\ err' = err
       ELSE /\ err' = [err EXCEPT ![s] = "RuntimeError"]
            /\ cpc' = [cpc EXCEPT ![s] = "raised"]
            /\ UNCHANGED <<tpc, trace>>
    /\ UNCHANGED <<overlap, kind, form, closes, envFail, flag, bodyErr, propagated,
                   resVars, stop, logVars, buffer_ready, data_ready, buffer,
                   prodVars, dep, during, recv>>

\* ldv1.start(): the controller calls start() itself (possibly again)
CallStart(s) ==
    /\ CtlFree(s)
    /\ form[s] = "explicit"
    /\ cpc[s] \in {"made", "started"}
    /\ start(s)

\* variant: __enter__ returns without calling start()
enter_nostart(s) ==
    /\ CtlFree(s)
    /\ form[s] = "scoped"
    /\ cpc[s] = "made"
    /\ cpc' = [cpc EXCEPT ![s] = "started"]
    /\ UNCHANGED <<overlap, kind, form, closes, err, envFail, flag, bodyErr, propagated,
                   tpc, resVars, stop, logVars, buffer_ready, data_ready, buffer,
                   prodVars, dep, during, recv, trace>>

\* __enter__: the with statement calls start() on entry
__enter__(s) ==
    /\ CtlFree(s)
    /\ form[s] = "scoped"
    /\ cpc[s] = "made"
    /\ start(s)

----------------------------------------------------------------------------
(* run(): the background thread *)

\* win32event.SetEvent(self.buffer_ready) at the top of the loop
run_arm(s) ==
    /\ tpc[s] = "arm"
    /\ buffer_ready' = TRUE
    /\ tpc' = [tpc EXCEPT ![s] = "callwait"]
    /\ UNCHANGED <<overlap, ctlVars, resVars, stop, logVars, data_ready, buffer,
                   prodVars, dep, during, recv, trace>>

\* variant: events = [self.stop, self.data_ready], stop has the smaller index
WaitResult_stopfirst(s) ==
    IF stop[s] THEN "stop"
    ELSE IF data_ready THEN "data_ready"
    ELSE "block"

\* WaitForMultipleObjects(events, 0, INFINITE) at the moment it is called:
\* the smallest index among the signalled events, else the thread blocks
WaitResult(s) ==
    IF data_ready THEN "data_ready"
    ELSE IF stop[s] THEN "stop"
    ELSE "block"

run_wait(s) ==
    /\ tpc[s] = "callwait"
    /\ data_ready' = IF WaitResult(s) = "data_ready" THEN FALSE ELSE data_ready
    /\ stop' = [stop EXCEPT ![s] = IF WaitResult(s) = "stop" THEN FALSE ELSE @]
    /\ tpc' = [tpc EXCEPT ![s] =
                  CASE WaitResult(s) = "data_ready" -> "read"
                    [] WaitResult(s) = "stop" -> "done"
                    [] OTHER -> "blocked"]
    /\ UNCHANGED <<overlap, ctlVars, resVars, logVars, buffer_ready, buffer,
                   prodVars, dep, during, recv, trace>>

\* variant: the line goes in front of what was written before
LogWrite_front(lines, line) == <<line>> \o lines

\* self.log_file.write(line)
LogWrite(lines, line) == Append(lines, line)

\* the data_ready branch: read the channel, decode, write the line.  An
\* exception (a closed mapping or file, an undecodable payload) ends run().
run_read(s) ==
    /\ tpc[s] = "read"
    /\ IF ~mapped[s]
       THEN /\ tpc' = [tpc EXCEPT ![s] = "dead"]
            /\ UNCHANGED <<logVars, recv>>
       ELSE /\ recv' = Append2(recv, s, [pid |-> buffer.pid, data |-> buffer.data])
            /\ IF log_state[s] = "open" /\ Decodable(TextBytes(buffer.data))
               THEN /\ log_file' = [log_file EXCEPT ![s] =
                           LogWrite(@, Line(buffer.pid, Decode(TextBytes(buffer.data))))]
                    /\ log_ids' = [log_ids EXCEPT ![s] = LogWrite(@, buffer.id)]
                    /\ tpc' = [tpc EXCEPT ![s] = "arm"]
               ELSE /\ tpc' = [tpc EXCEPT ![s] = "dead"]
                    /\ UNCHANGED logVars
    /\ UNCHANGED <<overlap, ctlVars, resVars, stop, buffer_ready, data_ready,
                   buffer, prodVars, dep, during, trace>>

----------------------------------------------------------------------------
(* Producers: OutputDebugString in another process, one at a time (DBWinMutex) *)

\* wait for DBWIN_BUFFER_READY; without the section or the events the call
\* returns at once, and a wait that is never satisfied times out
ProdAcquire ==
    /\ ppc = "idle"
    /\ sent < MaxMsgs
    /\ \E s \in Sessions : mapped[s]
    /\ EventExists("buffer_ready") /\ EventExists("data_ready")
    /\ buffer_ready
    /\ buffer_ready' = FALSE
    /\ ppc' = "acquired"
    /\ UNCHANGED <<overlap, ctlVars, tpc, resVars, stop, logVars, data_ready,
                   buffer, sent, dep, during, recv, trace>>

\* write the process id and the payload into the channel
ProdWrite(m) ==
    /\ ppc = "acquired"
    /\ buffer' = [pid |-> m.pid, data |-> m.data, id |-> sent + 1]
    /\ sent' = sent + 1
    /\ ppc' = "written"
    /\ UNCHANGED <<overlap, ctlVars, tpc, resVars, stop, logVars, buffer_ready,
                   data_ready, dep, during, recv, trace>>

\* SetEvent(DBWIN_DATA_READY), then drop the producer's own mapping
ProdSignal ==
    /\ ppc = "written"
    /\ IF Blocked # {}
       THEN /\ \E t \in Blocked : tpc' = [tpc EXCEPT ![t] = "read"]
            /\ data_ready' = data_ready
       ELSE /\ data_ready' = TRUE
            /\ tpc' = tpc
    /\ dep' = [s \in Sessions |->
                 IF kind[s] = "real" /\ cpc[s] = "started"
                 THEN Append(dep[s], buffer.id) ELSE dep[s]]
    /\ during' = [s \in Sessions |->
                    IF kind[s] = "real" /\ tpc[s] # "init" /\ closes[s] = 0
                    THEN during[s] \cup {buffer.id} ELSE during[s]]
    /\ buffer' = IF \E s \in Sessions : mapped[s] THEN buffer ELSE ZeroBuffer
    /\ ppc' = "idle"
    /\ UNCHANGED <<overlap, ctlVars, resVars, stop, logVars, buffer_ready, sent,
                   recv, trace>>

----------------------------------------------------------------------------
(* close(): LogDbgViewReal.close step by step, a no-op for LogDbgView *)

\* variant: PulseEvent, which releases a blocked thread and is lost otherwise
SetStop_pulse(s) ==
    /\ tpc' = [tpc EXCEPT ![s] = IF @ = "blocked" THEN "done" ELSE @]
    /\ stop' = stop

\* win32event.SetEvent(self.stop): releases the thread when it is blocked in
\* its wait, otherwise leaves the event signalled
SetStop(s) ==
    IF tpc[s] = "blocked"
    THEN /\ tpc' = [tpc EXCEPT ![s] = "done"]
         /\ stop' = stop
    ELSE /\ stop' = [stop EXCEPT ![s] = TRUE]
         /\ tpc' = tpc

\* close() is entered: LogDbgView.close returns at once, LogDbgViewReal.close
\* signals stop and goes on to join
close(s) ==
    /\ IF kind[s] = "null"
       THEN /\ cpc' = [cpc EXCEPT ![s] = "closed"]
            /\ closes' = [closes EXCEPT ![s] = @ + 1]
            /\ UNCHANGED <<tpc, stop, trace>>
       ELSE /\ SetStop(s)
            /\ cpc' = [cpc EXCEPT ![s] = "c_join"]
            /\ trace' = Append2(trace, s, "stop")
            /\ closes' = closes
    /\ UNCHANGED <<overlap, kind, form, err, envFail, flag, bodyErr, propagated,
                   resVars, logVars, buffer_ready, data_ready, buffer, prodVars,
                   dep, during, recv>>

\* ldv1.close(): the controller calls close() itself, also on a session it
\* never started or has closed before
CallClose(s) ==
    /\ CtlFree(s)
    /\ form[s] = "explicit"
    /\ cpc[s] \in {"made", "started", "closed"}
    /\ closes[s] < MaxCloses
    /\ close(s)

\* variant: __exit__ calls close() only when the body raised nothing
exit_on_success(s) ==
    /\ CtlFree(s)
    /\ form[s] = "scoped"
    /\ cpc[s] = "started"
    /\ IF bodyErr[s]
       THEN /\ cpc' = [cpc EXCEPT ![s] = "closed"]
            /\ propagated' = [propagated EXCEPT ![s] = TRUE]
            /\ UNCHANGED <<overlap, kind, form, closes, err, envFail, flag, bodyErr,
                           tpc, resVars, stop, logVars, buffer_ready, data_ready,
                           buffer, prodVars, dep, during, recv, trace>>
       ELSE close(s)

\* __exit__(type, value, traceback): the with statement calls close() when
\* the body is left, normally or by an error
__exit__(s) ==
    /\ CtlFree(s)
    /\ form[s] = "scoped"
    /\ cpc[s] = "started"
    /\ close(s)

\* an error is raised inside the with body
BodyRaise(s) ==
    /\ CtlFree(s)
    /\ form[s] = "scoped"
    /\ cpc[s] = "started"
    /\ ~bodyErr[s]
    /\ bodyErr' = [bodyErr EXCEPT ![s] = TRUE]
    /\ UNCHANGED <<overlap, kind, form, cpc, closes, err, envFail, flag, propagated,
                   tpc, resVars, stop, logVars, buffer_ready, data_ready, buffer,
                   prodVars, dep, during, recv, trace>>

\* variant: join() is left out, close() goes on while run() is still going
close_nojoin(s) ==
    /\ cpc[s] = "c_join"
    /\ cpc' = [cpc EXCEPT ![s] = "c_buf"]
    /\ trace' = Append2(trace, s, "join")
    /\ UNCHANGED <<overlap, kind, form, closes, err, envFail, flag, bodyErr, propagated,
                   tpc, resVars, stop, logVars, buffer_ready, data_ready, buffer,
                   prodVars, dep, during, recv>>

\* self.join(): returns once run() has ended; RuntimeError when the thread
\* was never started
close_join(s) ==
    /\ cpc[s] = "c_join"
    /\ tpc[s] = "init" \/ Finished(s)
    /\ IF tpc[s] = "init"
       THEN /\ err' = [err EXCEPT ![s] = "RuntimeError"]
            /\ cpc' = [cpc EXCEPT ![s] = "raised"]
            /\ trace' = trace
       ELSE /\ cpc' = [cpc EXCEPT ![s] = "c_buf"]
            /\ trace' = Append2(trace, s, "join")
            /\ err' = err
    /\ UNCHANGED <<overlap, kind, form, closes, envFail, flag, bodyErr, propagated,
                   tpc, resVars, stop, logVars, buffer_ready, data_ready, buffer,
                   prodVars, dep, during, recv>>

\* variant: closing a mapping that is closed already raises ValueError
close_buffer_strict(s) ==
    /\ cpc[s] = "c_buf"
    /\ mapped' = [mapped EXCEPT ![s] = FALSE]
    /\ buffer' = IF (\E t \in Sessions \ {s} : mapped[t]) \/ ppc # "idle"
                 THEN buffer ELSE ZeroBuffer
    /\ cpc' = [cpc EXCEPT ![s] = IF mapped[s] THEN "c_log" ELSE "raised"]
    /\ err' = [err EXCEPT ![s] = IF mapped[s] THEN @ ELSE "ValueError"]
    /\ trace' = Append2(trace, s, "release")
    /\ UNCHANGED <<overlap, kind, form, closes, envFail, flag, bodyErr, propagated,
                   tpc, handles, log_state, stop, logVars, buffer_ready,
                   data_ready, prodVars, dep, during, recv>>

\* variant: close() goes on to the log file and leaves the mapping open
close_buffer_skip(s) ==
    /\ cpc[s] = "c_buf"
    /\ cpc' = [cpc EXCEPT ![s] = "c_log"]
    /\ trace' = Append2(trace, s, "release")
    /\ UNCHANGED <<overlap, kind, form, closes, err, envFail, flag, bodyErr, propagated,
                   tpc, handles, mapped, log_state, stop, logVars, buffer_ready,
                   data_ready, buffer, prodVars, dep, during, recv>>

\* self.buffer.close(): unmaps the section; closing it again does nothing
close_buffer(s) ==
    /\ cpc[s] = "c_buf"
    /\ mapped' = [mapped EXCEPT ![s] = FALSE]
    /\ buffer' = IF (\E t \in Sessions \ {s} : mapped[t]) \/ ppc # "idle"
                 THEN buffer ELSE ZeroBuffer
    /\ cpc' = [cpc EXCEPT ![s] = "c_log"]
    /\ trace' = Append2(trace, s, "release")
    /\ UNCHANGED <<overlap, kind, form, closes, err, envFail, flag, bodyErr, propagated,
                   tpc, handles, log_state, stop, logVars, buffer_ready,
                   data_ready, prodVars, dep, during, recv>>

\* self.log_file.close(), after which close() returns; a with statement is
\* then left and re-raises the body's error because __exit__ returns None
close_log(s) ==
    /\ cpc[s] = "c_log"
    /\ log_state' = [log_state EXCEPT ![s] = "closed"]
    /\ cpc' = [cpc EXCEPT ![s] = "closed"]
    /\ closes' = [closes EXCEPT ![s] = @ + 1]
    /\ propagated' = [propagated EXCEPT ![s] = bodyErr[s]]
    /\ trace' = Append2(trace, s, "close")
    /\ UNCHANGED <<overlap, kind, form, err, envFail, flag, bodyErr, tpc, handles,
                   mapped, stop, logVars, buffer_ready, data_ready, buffer,
                   prodVars, dep, during, recv>>

----------------------------------------------------------------------------
(* Specifications *)

Next ==
    \/ \E s \in Sessions, b \in BOOLEAN, f \in {"explicit", "scoped"}, fail \in FailPoints :
          makeLogDbgView(s, b, f, fail)
    \/ \E s \in Sessions : CallStart(s)
    \/ \E s \in Sessions : __enter__(s)
    \/ \E s \in Sessions : run_arm(s)
    \/ \E s \in Sessions : run_wait(s)
    \/ \E s \in Sessions : run_read(s)
    \/ ProdAcquire
    \/ \E m \in Messages : ProdWrite(m)
    \/ ProdSignal
    \/ \E s \in Sessions : CallClose(s)
    \/ \E s \in Sessions : __exit__(s)
    \/ \E s \in Sessions : BodyRaise(s)
    \/ \E s \in Sessions : close_join(s)
    \/ \E s \in Sessions : close_buffer(s)
    \/ \E s \in Sessions : close_log(s)

\* the caller keeps to one live session at a time
Init == overlap = FALSE /\ Fresh
Spec == Init /\ [][Next]_vars

\* two independent callers each make a capture session, start it once and
\* close it once, at once against the same names
NextShared ==
    \/ \E s \in Sessions, fail \in FailPoints : makeLogDbgView(s, TRUE, "explicit", fail)
    \/ \E s \in Sessions : cpc[s] = "made" /\ CallStart(s)
    \/ \E s \in Sessions : run_arm(s)
    \/ \E s \in Sessions : run_wait(s)
    \/ \E s \in Sessions : run_read(s)
    \/ ProdAcquire
    \/ \E m \in Messages : ProdWrite(m)
    \/ ProdSignal
    \/ \E s \in Sessions : cpc[s] = "started" /\ CallClose(s)
    \/ \E s \in Sessions : close_join(s)
    \/ \E s \in Sessions : close_buffer(s)
    \/ \E s \in Sessions : close_log(s)

InitShared == overlap = TRUE /\ Fresh
SpecShared == InitShared /\ [][NextShared]_vars

\* the next step of the background thread, and of the controller in close()
run(s) == run_arm(s) \/ run_wait(s) \/ run_read(s)
closing(s) == close_join(s) \/ close_buffer(s) \/ close_log(s)

\* the scheduler lets a background thread that can step, and a controller
\* that is inside close() and can step, eventually do so
Fairness == \A s \in Sessions : WF_vars(run(s)) /\ WF_vars(closing(s))

\* the caller makes sessions one after another and calls start() and close()
\* once on each, in either form
NextLive ==
    \/ \E s \in Sessions, b \in BOOLEAN, f \in {"explicit", "scoped"}, fail \in FailPoints :
          makeLogDbgView(s, b, f, fail)
    \/ \E s \in Sessions : cpc[s] = "made" /\ CallStart(s)
    \/ \E s \in Sessions : __enter__(s)
    \/ \E s \in Sessions : run_arm(s)
    \/ \E s \in Sessions : run_wait(s)
    \/ \E s \in Sessions : run_read(s)
    \/ ProdAcquire
    \/ \E m \in Messages : ProdWrite(m)
    \/ ProdSignal
    \/ \E s \in Sessions : cpc[s] = "started" /\ CallClose(s)
    \/ \E s \in Sessions : __exit__(s)
    \/ \E s \in Sessions : BodyRaise(s)
    \/ \E s \in Sessions : close_join(s)
    \/ \E s \in Sessions : close_buffer(s)
    \/ \E s \in Sessions : close_log(s)

LiveSpec == Init /\ [][NextLive]_vars /\ Fairness

----------------------------------------------------------------------------
(* Claims *)

\* close() has returned at least once on the capture session s
StopReturned(s) == kind[s] = "real" /\ closes[s] >= 1

\* C1: after stop() has returned, the log holds exactly one line per message
\* deposited between start() and stop(), none lost and none twice.
Count(x, q) == Cardinality({i \in 1..Len(q) : q[i] = x})

C1_ExactlyN ==
    \A s \in Sessions :
        StopReturned(s) =>
            /\ \A i \in 1..Len(dep[s]) : Count(dep[s][i], log_ids[s]) = 1
            /\ (\A j \in 1..Len(log_ids[s]) : Count(log_ids[s][j], dep[s]) = 1)
                   => Len(log_file[s]) = Len(dep[s])

\* C2: within one session the lines are in arrival order: of two lines that
\* come from different messages, the one whose data_ready fired first is
\* written first.
C2_ArrivalOrder ==
    \A s \in Sessions :
        \A i, j \in 1..Len(log_ids[s]) :
            (i < j /\ log_ids[s][i] # log_ids[s][j]) => log_ids[s][i] < log_ids[s][j]

C2_Witness ==
    \E s \in Sessions :
        /\ Len(log_file[s]) >= 2
        /\ log_ids[s][1] # log_ids[s][2]
        /\ log_file[s][1] # log_file[s][2]

\* C3: once stop() has returned on a started session, the background thread
\* has left run(): it is in no position from which it reads or writes.
C3_StopJoins ==
    \A s \in Sessions : StopReturned(s) => Finished(s) /\ ~Running(s)

C3_Witness ==
    \E s \in Sessions :
        StopReturned(s) /\ tpc[s] = "done" /\ Len(log_file[s]) >= 1

C5_Idempotent ==
    [][\A s \in Sessions :
          StopReturned(s) =>
              /\ err'[s] = "none"
              /\ log_file'[s] = log_file[s]
              /\ Finished(s) /\ tpc'[s] = tpc[s]
              /\ ~mapped[s] /\ ~mapped'[s]
              /\ log_state[s] = "closed" /\ log_state'[s] = "closed"]_vars

C5_Witness ==
    \E s \in Sessions :
        kind[s] = "real" /\ closes[s] = 2 /\ cpc[s] = "closed" /\ Len(log_file[s]) >= 1

\* C6: a payload that is not valid text never ends capture: run() ends only
\* by observing stop, never by an exception.
C6_DecodeNeverEndsLoop ==
    \A s \in Sessions : tpc[s] # "dead"

\* C7: a with statement starts the session on entry and, however the body
\* ends, has the thread exited, the channel released and the log closed when
\* it is left; an error of the body reaches the caller.
ScopeLeft(s) == kind[s] = "real" /\ form[s] = "scoped" /\ cpc[s] = "closed"

C7_ScopedStops ==
    \A s \in Sessions :
        /\ (kind[s] = "real" /\ form[s] = "scoped" /\ cpc[s] = "started") => tpc[s] # "init"
        /\ ScopeLeft(s) =>
              /\ Finished(s)
              /\ ~mapped[s]
              /\ log_state[s] = "closed"
              /\ propagated[s] = bodyErr[s]

C7_Witness ==
    \E s \in Sessions :
        ScopeLeft(s) /\ bodyErr[s] /\ propagated[s] /\ Len(log_file[s]) >= 1

\* C8: the with form goes through the lifecycle steps of an explicit
\* start() ... close() and raises nothing of its own, and an explicit and a
\* scoped session that read the same messages end with the same log.
Canon == <<"start", "stop", "join", "release", "close">>
IsPrefix(p, q) == Len(p) <= Len(q) /\ \A i \in 1..Len(p) : p[i] = q[i]

C9_FailureReleases ==
    \A s \in Sessions :
        cpc[s] = "failed" =>
            /\ err[s] = "ResourceUnavailable"
            /\ tpc[s] = "init"
            /\ log_state[s] # "open"
            /\ ~mapped[s]
            /\ handles[s] = {}

\* C10 as stated: two sessions on the same names are never both listening.
C10_OneListener ==
    \A s, t \in Sessions : (s # t /\ Running(s)) => ~Running(t)

\* C10 as amended: a session fails to be made only when the environment
\* refuses one of its resources, never because another session holds the
\* same names; two sessions can both be listening.
C10_SharedOpen ==
    \A s \in Sessions :
        /\ cpc[s] = "failed" => envFail[s] # "none"
        /\ (kind[s] = "real" /\ envFail[s] = "none") => cpc[s] # "failed"

C10_Witness ==
    \E s, t \in Sessions :
        s # t /\ Running(s) /\ Running(t) /\ envFail[s] = "none" /\ envFail[t] = "none"

\* C11 as stated: a capture session that is made but not yet started has not
\* created or truncated its log file and holds no channel and no signal.
C11_AcquiredByStart ==
    \A s \in Sessions :
        (kind[s] = "real" /\ cpc[s] = "made") =>
            /\ log_state[s] = "absent"
            /\ ~mapped[s]
            /\ handles[s] = {}

\* C11 as amended: the constructor opens (truncates) the log, creates the
\* three events and maps the channel, so a session that is made but not yet
\* started holds them all and has no thread yet; start() acquires nothing;
\* once stop() has returned the log is closed and the channel released.
C11_AcquiredByInit ==
    \A s \in Sessions :
        /\ (kind[s] = "real" /\ cpc[s] = "made") =>
              /\ log_state[s] = "open" /\ log_file[s] = <<>>
              /\ mapped[s]
              /\ handles[s] = {"buffer_ready", "data_ready", "stop"}
              /\ tpc[s] = "init"
        /\ (kind[s] = "real" /\ cpc[s] = "started") =>
              /\ log_state[s] = "open"
              /\ mapped[s]
              /\ handles[s] = {"buffer_ready", "data_ready", "stop"}
        /\ StopReturned(s) => (log_state[s] = "closed" /\ ~mapped[s])

C11_Witness ==
    \E s, t \in Sessions :
        /\ kind[s] = "real" /\ cpc[s] = "made" /\ log_state[s] = "open" /\ mapped[s]
        /\ StopReturned(t) /\ Len(log_file[t]) >= 1 /\ log_state[t] = "closed"

\* what start(), close(), __enter__() and __exit__() of a session can reach
\* besides the controller's own position: files, events, channel, threads
Outside ==
    <<handles, mapped, log_state, log_file, log_ids, stop, tpc, trace,
      buffer_ready, data_ready, buffer, recv, err>>

\* C12: a null session never has a log file, an event, the channel or a
\* thread, never raises, and each of its operations (construction, start,
\* close, scoped entry and exit, in any order and number) leaves the files,
\* events, channel and threads of the whole system unchanged.
C12_NullIsInert ==
    [][\A s \in Sessions :
          kind'[s] = "null" =>
              /\ log_state'[s] = "absent" /\ log_file'[s] = <<>>
              /\ handles'[s] = {} /\ ~mapped'[s] /\ ~stop'[s]
              /\ tpc'[s] = "init" /\ trace'[s] = <<>>
              /\ recv'[s] = <<>> /\ err'[s] = "none"
              /\ (cpc'[s] # cpc[s] \/ closes'[s] # closes[s]) =>
                     UNCHANGED Outside]_vars

\* a null session closed twice explicitly, and one that left its with block,
\* while the capture session made after it is running
C12_Witness ==
    \E s \in Sessions :
        /\ kind[s] = "null" /\ cpc[s] = "closed"
        /\ (closes[s] = MaxCloses \/ form[s] = "scoped")
        /\ \E t \in Sessions : kind[t] = "real" /\ Len(log_file[t]) >= 1

\* the i-th line of the log of s and the message it was made from
LoggedText(s, i) == log_file[s][i][4]
ReadData(s, i) == recv[s][i].data

\* C13: every log line is 'Process {pid}: {text}' and a line end, with the
\* pid of the message read, and text is the bytes of the payload before its
\* first NUL: a prefix of the payload that holds no NUL and that ends at a
\* NUL of the payload or, when the payload has none, at the end of the
\* region, which is read to its full length.
C13_TextBeforeNul ==
    \A s \in Sessions : \A i \in 1..Len(log_file[s]) :
        /\ i <= Len(recv[s])
        /\ Len(log_file[s][i]) = 5
        /\ log_file[s][i][1] = "Process "
        /\ log_file[s][i][2] = recv[s][i].pid
        /\ log_file[s][i][3] = ": "
        /\ log_file[s][i][5] = "\n"
        /\ Len(ReadData(s, i)) = remaining_length
        /\ Len(LoggedText(s, i)) <= Len(ReadData(s, i))
        /\ \A j \in 1..Len(LoggedText(s, i)) :
              LoggedText(s, i)[j] = ReadData(s, i)[j] /\ ReadData(s, i)[j] # NUL
        /\ \/ Len(LoggedText(s, i)) = Len(ReadData(s, i))
           \/ ReadData(s, i)[Len(LoggedText(s, i)) + 1] = NUL

\* one line made from a payload that fills the region without a NUL, and one
\* made from a payload with a NUL after its first byte
C13_Witness ==
    /\ \E s \in Sessions : \E i \in 1..Len(log_file[s]) :
          /\ Len(LoggedText(s, i)) = remaining_length
          /\ \A j \in 1..remaining_length : ReadData(s, i)[j] # NUL
    /\ \E s \in Sessions : \E i \in 1..Len(log_file[s]) :
          /\ Len(LoggedText(s, i)) = 1
          /\ ReadData(s, i)[2] = NUL

\* C14: the session the factory returns is a capture session when the flag
\* it was called with is true and a null session when it is false, whatever
\* the form of use, the outcome of construction and what was done with the
\* session since.
C14_FactorySelects ==
    \A s \in Sessions :
        cpc[s] # "none" =>
            /\ flag[s] = TRUE => kind[s] = "real"
            /\ flag[s] = FALSE => kind[s] = "null"

\* both flag values were passed, and the two sessions went through the same
\* operations: made, started and closed
C14_Witness ==
    \E s, t \in Sessions :
        /\ flag[s] = TRUE /\ kind[s] = "real" /\ cpc[s] = "closed" /\ tpc[s] = "done"
        /\ flag[t] = FALSE /\ kind[t] = "null" /\ cpc[t] = "closed"
        /\ form[s] = form[t]

\* C15: one message in flight.  While a producer holds the channel (it has
\* passed its wait for DBWIN_BUFFER_READY and has not yet set
\* DBWIN_DATA_READY) no listener is reading the channel and no deposited
\* message is waiting to be read, so nothing is read while it is written and
\* nothing is overwritten before it is read.
C15_OneInFlight ==
    ppc # "idle" =>
        /\ \A s \in Sessions : tpc[s] # "read"
        /\ ~data_ready

\* the lifecycle step that may come after each step of one session; a
\* repeated close() goes through the four steps of close() again
Follows ==
    {<<"none", "start">>, <<"none", "stop">>, <<"start", "stop">>,
     <<"stop", "join">>, <<"join", "release">>, <<"release", "close">>,
     <<"close", "stop">>}

LastStep(q) == IF q = <<>> THEN "none" ELSE q[Len(q)]

\* C16: close() signals stop, joins the thread, releases the channel and
\* closes the log, in this order on every call; over the life of a session
\* the thread ends once, the channel is released once (after the thread has
\* ended, the log still open) and the log is closed once (after the channel
\* is released), and none comes back; so the thread never reads the channel
\* after its release and never writes the log after its closing.
C16_TeardownOrder ==
    [][\A s \in Sessions :
          /\ trace'[s] # trace[s] =>
                /\ Len(trace'[s]) = Len(trace[s]) + 1
                /\ <<LastStep(trace[s]), LastStep(trace'[s])>> \in Follows
          /\ (mapped[s] /\ ~mapped'[s]) =>
                Finished(s) /\ log_state[s] = "open" /\ LastStep(trace[s]) = "join"
          /\ (log_state[s] = "open" /\ log_state'[s] # "open") =>
                /\ log_state'[s] = "closed"
                /\ Finished(s) /\ ~mapped[s] /\ LastStep(trace[s]) = "release"
          /\ Finished(s) => tpc'[s] = tpc[s]
          /\ (cpc[s] # "none" /\ ~mapped[s]) => (~mapped'[s] /\ recv'[s] = recv[s])
          /\ log_state[s] = "closed" =>
                (log_state'[s] = "closed" /\ log_file'[s] = log_file[s])
          /\ (kind'[s] = "real" /\ closes'[s] >= 1) =>
                (tpc'[s] \in {"done", "dead"} /\ ~mapped'[s] /\ log_state'[s] = "closed")
      ]_vars

\* a session that logged a message, was stopped while its thread was
\* running, and was then closed a second time
C16_Witness ==
    \E s \in Sessions :
        /\ kind[s] = "real" /\ closes[s] = MaxCloses
        /\ Len(log_file[s]) >= 1 /\ tpc[s] = "done"
        /\ Len(trace[s]) > Len(Canon)

\* C17 as stated: whenever the wait of the loop returns with the stop event
\* signalled, the loop ends at once and reads and logs nothing more.
C17_StopExitsAtOnce ==
    [][\A s \in Sessions :
          (tpc[s] = "callwait" /\ stop[s] /\ tpc'[s] # tpc[s]) =>
              /\ tpc'[s] = "done"
              /\ recv'[s] = recv[s] /\ log_file'[s] = log_file[s]
      ]_vars

\* C17 as amended: DBWIN_DATA_READY comes first in the list of the wait.  A
\* wait that finds it signalled goes on to read and log the message, whether
\* or not stop is signalled too, and leaves stop signalled for the next wait;
\* a wait that finds only stop signalled, and a blocked wait released by
\* stop, end the loop without reading, and an ended loop reads and logs
\* nothing more.
C17_DataBeforeStop ==
    [][\A s \in Sessions :
          /\ (tpc[s] = "callwait" /\ tpc'[s] # tpc[s]) =>
                /\ data_ready => (tpc'[s] = "read" /\ ~data_ready' /\ stop'[s] = stop[s])
                /\ (~data_ready /\ stop[s]) => (tpc'[s] = "done" /\ ~stop'[s])
                /\ (~data_ready /\ ~stop[s]) => tpc'[s] = "blocked"
                /\ recv'[s] = recv[s] /\ log_file'[s] = log_file[s]
          /\ (tpc[s] = "blocked" /\ tpc'[s] = "done") =>
                recv'[s] = recv[s] /\ log_file'[s] = log_file[s]
          /\ tpc[s] = "done" =>
                tpc'[s] = "done" /\ recv'[s] = recv[s] /\ log_file'[s] = log_file[s]
      ]_vars

\* the loop has logged a message that was deposited after close() had
\* signalled stop, and has ended at its next wait
C17_Witness ==
    \E s \in Sessions :
        /\ tpc[s] = "done" /\ cpc[s] = "c_join"
        /\ Len(log_ids[s]) >= 1
        /\ \A i \in 1..Len(dep[s]) : dep[s][i] # log_ids[s][Len(log_ids[s])]
        /\ \A t \in Sessions \ {s} : kind[t] # "real"

\* C18: between start() and close() of a capture session exactly one thread
\* is running the loop of the session on the one mapping of the session: the
\* thread is running until close() signals stop.
C18_OneTask ==
    \A s \in Sessions :
        (kind[s] = "real" /\ cpc[s] = "started") =>
            /\ Running(s)
            /\ mapped[s]

\* C19: sessions run one after another on the same names.  Every line of the
\* log of a session comes from a message whose deposit was completed between
\* start() and the return of close() of that session (so none from a deposit
\* made while no session was running, and none from a channel no producer
\* had written), no message is logged twice in place of one it overwrote,
\* and when the loop has ended on stop every message deposited before
\* close() was called is in the log.
C19_OnlyOwnMessages ==
    \A s \in Sessions :
        kind[s] = "real" =>
            /\ \A i \in 1..Len(log_ids[s]) :
                  /\ log_ids[s][i] \in during[s]
                  /\ Count(log_ids[s][i], log_ids[s]) = 1
            /\ (StopReturned(s) /\ tpc[s] = "done") =>
                  \A i \in 1..Len(dep[s]) : Count(dep[s][i], log_ids[s]) = 1

====
